---------------------------- MODULE Spec2Model ----------------------------
(***************************************************************************)
(* A model of src/lib/lunar.js: the moon position chain, the transit       *)
(* search, the two-hourly rise/set sweep and the phase index with its      *)
(* label.                                                                  *)
(*                                                                         *)
(* Numbers.  lunar.js computes in IEEE doubles; the model computes in      *)
(* fixed point:                                                            *)
(*   - an angle is an integer count of 1e-4 rad (SCALE units per radian);  *)
(*   - a linear coefficient (Q0, Q1, ...) is a count of 1e-7 rad;          *)
(*   - an instant is a count of ticks of 3600 ms, a time argument `t` is   *)
(*     ticks since J2000, and an hour offset is a count of milli-hours     *)
(*     (one tick is one milli-hour);                                       *)
(*   - NaN is the empty tuple and the number v is the tuple <<v>>.         *)
(* A quadratic coefficient of exactly zero (a division by zero in the      *)
(* source, whose quotients are infinite or NaN and satisfy no comparison)  *)
(* is modelled by its outcome: no root is counted.  It is more frequent at *)
(* the resolution of the model than it is in doubles.                      *)
(***************************************************************************)
EXTENDS Integers, Sequences, FiniteSets

(***************************************************************************)
(* Fixed-point arithmetic                                                  *)
(***************************************************************************)
SCALE == 10 * 1000
K == 10 * 100
TicksPerHour == K
TicksPerDay == 24 * TicksPerHour

PI == 31416
HalfPi == PI \div 2
TwoPi == 2 * PI
TwoPi7 == 2 * 31415927

Abs(x) == IF x < 0 THEN -x ELSE x

\* Division rounding to nearest, for a positive divisor.
DivR(a, b) == (2 * a + b) \div (2 * b)

\* Division rounding to nearest, for a nonzero divisor of either sign.
FDiv(n, d) == IF d > 0 THEN DivR(n, d) ELSE DivR(-n, -d)

\* JavaScript's %: the remainder takes the sign of the dividend.
JSMod(a, b) == IF a >= 0 THEN a % b ELSE -((-a) % b)

RECURSIVE MulMod(_, _, _)
\* (a * n) % m for n >= 0 without leaving 32 bits.
MulMod(a, n, m) ==
    IF n = 0 THEN 0
    ELSE (MulMod(a, n \div 16, m) * 16 + a * (n % 16)) % m

\* The angle A0 + A1 * t reduced to [0, 2 pi), in 1e-7 rad, for t in ticks
\* since J2000 and A1 per day.
LinAngle(A0, A1, t) ==
    LET D   == t \div TicksPerDay
        f   == t % TicksPerDay
        fh  == f \div TicksPerHour
        fl  == f % TicksPerHour
        A1d == A1 % TwoPi7
        A1h == A1 \div 24
        dm  == IF D >= 0 THEN MulMod(A1d, D, TwoPi7)
               ELSE (TwoPi7 - MulMod(A1d, -D, TwoPi7)) % TwoPi7
    IN  (A0 + dm + A1h * fh + ((A1h \div 10) * fl) \div 100) % TwoPi7

\* 1e-7 rad to 1e-4 rad.
To4(a7) == DivR(a7, 1000)

\* Hundredths of a degree to 1e-4 rad (the factor RAD of the source).
RAD(deg100) == DivR(deg100 * 17453, SCALE)

\* Math.sin on [-pi/2, pi/2]: the Taylor polynomial to x^9, SCALE * sin.
SinQ(x) ==
    LET x2 == DivR(x * x, SCALE)
        p1 == SCALE - DivR(x2, 72)
        p2 == SCALE - DivR(x2 * p1, 42 * SCALE)
        p3 == SCALE - DivR(x2 * p2, 20 * SCALE)
        p4 == SCALE - DivR(x2 * p3, 6 * SCALE)
    IN  DivR(x * p4, SCALE)

\* Math.sin and Math.cos, SCALE * value.
Sin(x) ==
    LET y == x % TwoPi
    IN  IF y <= HalfPi THEN SinQ(y)
        ELSE IF y <= 3 * HalfPi THEN SinQ(PI - y)
        ELSE SinQ(y - TwoPi)

Cos(x) == Sin(x + HalfPi)

RECURSIVE Bisect(_, _, _)
Bisect(lo, hi, y) ==
    IF hi - lo <= 1 THEN lo
    ELSE LET mid == (lo + hi) \div 2
         IN  IF SinQ(mid) <= y THEN Bisect(mid, hi, y) ELSE Bisect(lo, mid, y)

\* Math.asin of y / SCALE.
ASin(y) ==
    IF y >= SCALE THEN HalfPi
    ELSE IF y <= -SCALE THEN -HalfPi
    ELSE Bisect(-HalfPi, HalfPi, y)

RECURSIVE ISqrtB(_, _, _)
ISqrtB(lo, hi, n) ==
    IF hi - lo <= 1 THEN lo
    ELSE LET mid == (lo + hi) \div 2
         IN  IF mid * mid <= n THEN ISqrtB(mid, hi, n) ELSE ISqrtB(lo, mid, n)

\* Floor of Math.sqrt(n).
ISqrt(n) == ISqrtB(0, 46341, n)

\* K * Math.sqrt(n), by linear interpolation between consecutive squares.
SqrtK(n) ==
    LET s0 == ISqrt(n)
        r  == n - s0 * s0
    IN  s0 * K + (r * K) \div (2 * s0 + 1)

\* Math.atan2(y, x).
Atan2(y, x) ==
    LET r == ISqrt(x * x + y * y)
    IN  IF r = 0 THEN 0
        ELSE IF x >= 0 /\ Abs(y) <= x THEN ASin(DivR(y * SCALE, r))
        ELSE IF y > 0 /\ Abs(x) <= y THEN HalfPi - ASin(DivR(x * SCALE, r))
        ELSE IF x < 0 /\ Abs(y) <= -x
             THEN IF y >= 0 THEN PI - ASin(DivR(y * SCALE, r))
                  ELSE -PI - ASin(DivR(y * SCALE, r))
        ELSE -HalfPi + ASin(DivR(x * SCALE, r))

NaN == << >>
Num(v) == << v >>
isNaN(x) == x = NaN
Val(x) == x[1]

(***************************************************************************)
(* The time scale and the sidereal clock.  julian.js and sidereal.js are   *)
(* required by lunar.js but are not part of the sources at hand; they are  *)
(* modelled from the specification: julian.to(ms) is days since J2000      *)
(* (ms / 86400000 + 2440587.5 - 2451545), julian.from is its inverse, and  *)
(* sidereal.local(t, lon) is a linear Greenwich sidereal angle plus the    *)
(* observer's longitude.                                                   *)
(***************************************************************************)
J2000 == 10957 * TicksPerDay + 12 * TicksPerHour
julian_to(ms) == ms - J2000
julian_from(x) == IF isNaN(x) THEN NaN ELSE Num(Val(x) + J2000)

S0 == 48894875
S1 == 63003877
sidereal_local(t, lon) == To4(LinAngle(S0, S1, t)) + lon

(***************************************************************************)
(* Lunar position (lunar.js lines 8-91)                                    *)
(***************************************************************************)
limit_angle(radians) == radians % TwoPi

Q0 == 38103330
Q1 == 2299715
M0 == 23555487
M1 == 2280271
F0 == 16279035
F1 == 2308957
L0 == 1098
L1 == 895
E0 == 4090877
\* E1 is in 1e-12 rad per day.
E1 == -6283

_ecliptic_equinox_longitude(t) == To4(LinAngle(Q0, Q1, t))

_mean_anomaly(t) == To4(LinAngle(M0, M1, t))

_mean_distance(t) == To4(LinAngle(F0, F1, t))

_longitude(t) ==
    _ecliptic_equinox_longitude(t) + DivR(L0 * Sin(_mean_anomaly(t)), SCALE)

_latitude(t) == DivR(L1 * Sin(_mean_distance(t)), SCALE)

_obliquity(t) == To4(E0 + (E1 * (t \div TicksPerDay)) \div (100 * 1000))

_right_ascension_direct(lat, lon, obl) ==
    LET tanlat == DivR(Sin(lat) * SCALE, Cos(lat))
    IN  Atan2(DivR(Sin(lon) * Cos(obl), SCALE) - DivR(tanlat * Sin(obl), SCALE),
              Cos(lon))

_right_ascension(t) ==
    _right_ascension_direct(_latitude(t), _longitude(t), _obliquity(t))

_declination_direct(lat, lon, obl) ==
    ASin(DivR(Sin(lat) * Cos(obl), SCALE)
         + DivR(DivR(Cos(lat) * Sin(obl), SCALE) * Sin(lon), SCALE))

_declination(t) ==
    _declination_direct(_latitude(t), _longitude(t), _obliquity(t))

_hour_angle_direct(lst, ra) == limit_angle(lst) - limit_angle(ra)

\* ha * (12 / Math.PI / 24) days: 24000 ticks per 62832 units of angle.
_transit_direct(t, ha) == t - DivR(ha * 500, 1309)

_hour_angle(t, lon) ==
    _hour_angle_direct(sidereal_local(t, lon), _right_ascension(t))

_hour_angle_iterative(t, lon, ha0) ==
    LET t1 == _transit_direct(t, ha0)
    IN  _hour_angle(t1, lon) + ha0

_hour_angle_refined(t, lon) ==
    LET ha1 == _hour_angle(t, lon)
        ha2 == _hour_angle_iterative(t, lon, ha1)
        ha3 == _hour_angle_iterative(t, lon, ha2)
        ha4 == _hour_angle_iterative(t, lon, ha3)
    IN  _hour_angle_iterative(t, lon, ha4)

\* hrs is in milli-hours, one tick each.
_hours_later(t, hrs) == t + hrs

\* lat is accepted and not used, as in the source.
_transit(t, lat, lon) ==
    LET later_t == _hours_later(t, 24 * K)
        back    == _transit_direct(later_t, _hour_angle_refined(later_t, lon))
        fwd     == _transit_direct(t, _hour_angle_refined(t, lon))
    IN  IF back <= later_t THEN Num(back)
        ELSE IF fwd >= t THEN Num(fwd)
        ELSE NaN

_elevation(t, lat, lon) ==
    LET decl == _declination(t)
        ha   == _hour_angle(t, lon)
    IN  ASin(DivR(Sin(lat) * Sin(decl), SCALE)
             + DivR(DivR(Cos(lat) * Cos(decl), SCALE) * Cos(ha), SCALE))

PARALLAX == 23

VARIABLES
    ms, lat, lon,        \* the arguments of the query: instant (ticks since
                         \* the Unix epoch), latitude and longitude
                         \* (hundredths of a degree)
    pc,                  \* position of rise_and_set: "sweep" (at the head of
                         \* the loop), "return" (after the loop), "done"
    i, h0, h1, h2,       \* locals of _rise_and_set
    roots, x1, x2,
    moonrise, moonset,
    ret,                 \* the object returned by rise_and_set
    tpc, tres,           \* position ("call", "done") and result of transit
    phour, hist,         \* the argument of phase (hours since the Unix
                         \* epoch) and the objects its calls returned
    lpc, lin, lout       \* position, argument (tenths) and result of
                         \* _phaseString

eventVars == <<ms, lat, lon, pc, i, h0, h1, h2, roots, x1, x2,
               moonrise, moonset, ret, tpc, tres>>
phaseVars == <<phour, hist>>
labelVars == <<lpc, lin, lout>>
vars == <<eventVars, phaseVars, labelVars>>

(***************************************************************************)
(* The rise/set sweep (lunar.js lines 143-212)                             *)
(***************************************************************************)

\* The parabola through (-1, h0), (0, h1), (1, h2) and its roots.  a2 is
\* 2a, b2 is 2b and d4 is 4d of the source; x1 and x2 are in milli-hours
\* and are meaningful when `real` holds (d >= 0 and a # 0).
fit(y0, y1, y2) ==
    LET a2   == y2 + y0 - 2 * y1
        b2   == y2 - y0
        d4   == b2 * b2 - 8 * a2 * y1
        real == d4 >= 0 /\ a2 # 0
        xe   == IF real THEN FDiv(-b2 * K, 2 * a2) ELSE 0
        dx   == IF real THEN SqrtK(d4) \div (2 * Abs(a2)) ELSE 0
    IN  [a2 |-> a2, b2 |-> b2, d4 |-> d4, real |-> real,
         x1 |-> xe - dx, x2 |-> xe + dx,
         \* ye = -d / (4a)
         yeNeg |-> a2 # 0 /\ ((d4 > 0 /\ a2 > 0) \/ (d4 < 0 /\ a2 < 0))]

\* The number of roots within the segment (lines 171-183).
count_roots(p) ==
    IF p.real
    THEN (IF Abs(p.x1) <= K THEN 1 ELSE 0) + (IF Abs(p.x2) <= K THEN 1 ELSE 0)
    ELSE 0

\* x1 after `if (x1 < -1) x1 = x2` (lines 180-182).
swap_x1(p) == IF p.real /\ p.x1 < -K THEN p.x2 ELSE p.x1

\* moonrise after the segment's recording step, without the isNaN guards.
next_moonrise_unguarded(idx, y0, n, p, rise) ==
    IF n = 1 THEN IF y0 < 0 THEN Num(idx * K + swap_x1(p)) ELSE rise
    ELSE IF n = 2 THEN Num(idx * K + (IF p.yeNeg THEN p.x2 ELSE swap_x1(p)))
    ELSE rise

\* moonrise after the segment's recording step (lines 185-198).
next_moonrise(idx, y0, n, p, rise) ==
    IF n = 1
    THEN IF y0 < 0 /\ isNaN(rise) THEN Num(idx * K + swap_x1(p)) ELSE rise
    ELSE IF n = 2
    THEN IF isNaN(rise)
         THEN Num(idx * K + (IF p.yeNeg THEN p.x2 ELSE swap_x1(p)))
         ELSE rise
    ELSE rise

\* moonset after the segment's recording step (lines 185-198); `rise` is
\* moonrise before the step.
next_moonset(idx, y0, n, p, rise, set) ==
    IF n = 1
    THEN IF y0 < 0 /\ isNaN(rise) THEN set
         ELSE IF isNaN(set) THEN Num(idx * K + swap_x1(p)) ELSE set
    ELSE IF n = 2
    THEN IF isNaN(set)
         THEN Num(idx * K + (IF p.yeNeg THEN swap_x1(p) ELSE p.x2))
         ELSE set
    ELSE set

\* `moonrise < 24 && moonset < 24` (line 201): false when either is NaN.
found(rise, set) ==
    /\ ~isNaN(rise) /\ Val(rise) < 24 * K
    /\ ~isNaN(set) /\ Val(set) < 24 * K

\* The elevation above the threshold h = -PARALLAX at `hrs` hours after ms.
sample(hrs) ==
    _elevation(_hours_later(julian_to(ms), hrs * K), RAD(lat), RAD(lon))
    + PARALLAX

(***************************************************************************)
(* The phase index and its label (lunar.js lines 214-287, 343-351).        *)
(* new Date(ts) and its getters getFullYear, getMonth and getDate read the *)
(* time zone of the host: the date is that of the instant shifted by the   *)
(* host's offset from UTC, here `tz` hours.                                *)
(***************************************************************************)

\* The proleptic Gregorian date of day number z (days since 1970-01-01), as
\* kept by a Date: getMonth is 0 for January.
civil_from_days(z) ==
    LET zz  == z + 719468
        era == zz \div 146097
        doe == zz - era * 146097
        yoe == (doe - doe \div 1460 + doe \div 36524 - doe \div 146096) \div 365
        doy == doe - (365 * yoe + yoe \div 4 - yoe \div 100)
        mp  == (5 * doy + 2) \div 153
        d   == doy - (153 * mp + 2) \div 5 + 1
        m   == IF mp < 10 THEN mp + 3 ELSE mp - 9
        y   == yoe + era * 400 + (IF m <= 2 THEN 1 ELSE 0)
    IN  [getFullYear |-> y, getMonth |-> m - 1, getDate |-> d]

\* new Date(ts) on a host whose local time is UTC + tz hours; ts in hours.
_dateFromTimestamp(ts, tz) == civil_from_days((ts + tz) \div 24)

\* r of _phaseNumber after `r = Math.floor(r + 0.5) % 30` (lines 215-231).
\* The subtraction of 8.3 and the rounding are computed in tenths.
phase_r(ts, tz) ==
    LET date  == _dateFromTimestamp(ts, tz)
        year  == date.getFullYear
        month == date.getMonth + 1
        day   == date.getDate
        r1    == JSMod(JSMod(year, 100), 19)
        r2    == IF r1 > 9 THEN r1 - 19 ELSE r1
        r3    == JSMod(r2 * 11, 30) + month + day
        r4    == IF month < 3 THEN r3 + 2 ELSE r3
        r5    == 10 * r4 - (IF year < 2000 THEN 40 ELSE 83)
    IN  JSMod((r5 + 5) \div 10, 30)

\* _phaseNumber without its last line `return r < 0 ? r + 30 : r`.
_phaseNumber_unwrapped(ts, tz) == phase_r(ts, tz)

_phaseNumber(ts, tz) ==
    LET r == phase_r(ts, tz)
    IN  IF r < 0 THEN r + 30 ELSE r

\* The switch of _phaseString (lines 259-284) on the rounded number n; lim
\* is the bound of its last case.
phase_label(n, lim) ==
    IF n = 0 THEN "new-moon"
    ELSE IF 0 < n /\ n < 8 THEN "Waxing-crescent"
    ELSE IF n = 8 THEN "first-quarter"
    ELSE IF 8 < n /\ n < 15 THEN "waxing-gibbous"
    ELSE IF n = 15 THEN "full-moon"
    ELSE IF 15 < n /\ n < 22 THEN "waning-gibbous"
    ELSE IF n = 22 THEN "last-quarter"
    ELSE IF 22 < n /\ n < lim THEN "waning-crescent"
    ELSE "null"

\* Math.round of a number given in tenths.
Round(x10) == (x10 + 5) \div 10

\* _phaseString with `phaseNumber < 30` as the bound of its last case.
_phaseString_below30(x10) == phase_label(Round(x10), 30)

\* _phaseString with `phaseNumber < 29` as the bound of its last case.
_phaseString_below29(x10) == phase_label(Round(x10), 29)

\* _phaseString of a number given in tenths; "null" stands for null.
_phaseString(x10) == phase_label(Round(x10), 31)

phase(ts, tz) ==
    LET phaseNumber == _phaseNumber(ts, tz)
    IN  [number |-> phaseNumber, string |-> _phaseString(10 * phaseNumber)]

(***************************************************************************)
(* Queries of the event solver.  An instant is QueryBase + k * QueryStep:  *)
(* steps of 96 minutes over the day after 2006-03-27T17:00Z.  The first    *)
(* three observers are those of src/test.js (Albuquerque, Albany, Sydney); *)
(* the fourth is near the equator (Nairobi).  The calls are synchronous    *)
(* and in the order of src/test.js: transit runs once rise_and_set has     *)
(* returned, never within its loop.                                        *)
(***************************************************************************)
MaxK == 15
QueryBase == (13234 * 24 + 17) * TicksPerHour
QueryStep == (8 * TicksPerHour) \div 5
Instants == { QueryBase + k * QueryStep : k \in 0..MaxK }
Observers == { <<3505, -10662>>, <<4265, -7376>>, <<-3385, 15120>>,
               <<-129, 3682>> }

EventInit ==
    /\ ms \in Instants
    /\ \E o \in Observers : lat = o[1] /\ lon = o[2]
    /\ pc = "sweep"
    /\ i = 0
    /\ h0 = sample(0)
    /\ h1 = h0
    /\ h2 = 0
    /\ roots = 0 /\ x1 = 0 /\ x2 = 0
    /\ moonrise = NaN /\ moonset = NaN
    /\ ret = [moonrise |-> NaN, moonset |-> NaN]
    /\ tpc = "call"
    /\ tres = NaN

EventIdle ==
    /\ ms = QueryBase /\ lat = 0 /\ lon = 0
    /\ pc = "done"
    /\ i = 0 /\ h0 = 0 /\ h1 = 0 /\ h2 = 0
    /\ roots = 0 /\ x1 = 0 /\ x2 = 0
    /\ moonrise = NaN /\ moonset = NaN
    /\ ret = [moonrise |-> NaN, moonset |-> NaN]
    /\ tpc = "done"
    /\ tres = NaN

PhaseIdle == phour = 0 /\ hist = << >>

LabelIdle == lpc = "done" /\ lin = 0 /\ lout = "null"

\* One pass through the body of the loop of _rise_and_set (lines 153-206).
Segment ==
    /\ pc = "sweep"
    /\ LET n1 == IF i # 0 THEN sample(i) ELSE h1
           n2 == sample(i + 1)
           p  == fit(h0, n1, n2)
           n  == count_roots(p)
           r  == next_moonrise(i, h0, n, p, moonrise)
           s  == next_moonset(i, h0, n, p, moonrise, moonset)
       IN  /\ h1' = n1
           /\ h2' = n2
           /\ roots' = n
           /\ x1' = swap_x1(p)
           /\ x2' = p.x2
           /\ moonrise' = r
           /\ moonset' = s
           /\ IF found(r, s)
              THEN pc' = "return" /\ UNCHANGED <<i, h0>>
              ELSE /\ h0' = n2
                   /\ i' = i + 2
                   /\ pc' = IF i + 2 <= 24 THEN "sweep" ELSE "return"
    /\ UNCHANGED <<ms, lat, lon, ret, tpc, tres, phaseVars, labelVars>>

\* The return of _rise_and_set and of rise_and_set (lines 207-211, 336-341).
Return ==
    /\ pc = "return"
    /\ LET t == julian_to(ms)
           x == [moonrise |-> IF isNaN(moonrise) THEN NaN
                              ELSE Num(_hours_later(t, Val(moonrise))),
                 moonset  |-> IF isNaN(moonset) THEN NaN
                              ELSE Num(_hours_later(t, Val(moonset)))]
       IN  ret' = [moonrise |-> julian_from(x.moonrise),
                   moonset  |-> julian_from(x.moonset)]
    /\ pc' = "done"
    /\ UNCHANGED <<ms, lat, lon, i, h0, h1, h2, roots, x1, x2,
                   moonrise, moonset, tpc, tres, phaseVars, labelVars>>

\* transit(ms, lat, lon) (lines 317-319).
Transit ==
    /\ tpc = "call"
    /\ pc = "done"
    /\ tres' = julian_from(_transit(julian_to(ms), RAD(lat), RAD(lon)))
    /\ tpc' = "done"
    /\ UNCHANGED <<ms, lat, lon, pc, i, h0, h1, h2, roots, x1, x2,
                   moonrise, moonset, ret, phaseVars, labelVars>>

Init == EventInit /\ PhaseIdle /\ LabelIdle

Next == Segment \/ Return \/ Transit

Spec == Init /\ [][Next]_vars

(***************************************************************************)
(* Properties of the event solver                                          *)
(***************************************************************************)

\* The hours at which the sweep has sampled the elevation once it has left
\* the loop: 0 .. i + 1 after a break at segment i, 0 .. 25 otherwise.
SampledHours == 0 .. (IF i + 1 <= 25 THEN i + 1 ELSE 25)

OneSign ==
    \/ \A j \in SampledHours : sample(j) > 0
    \/ \A j \in SampledHours : sample(j) < 0

\* C1: when the elevation minus the threshold has one sign (always above or
\* always below) at every time the sweep sampled, the returned rise and set
\* are both NaN.
C1_OneSignGivesNaN ==
    (pc = "done" /\ OneSign) => (isNaN(ret.moonrise) /\ isNaN(ret.moonset))

InNext24h(x) == isNaN(x) \/ (ms <= Val(x) /\ Val(x) <= ms + 24 * K)

\* C2: every returned rise or set time that is not NaN lies between the
\* query instant and 24 hours after it (an offset >= 0 and <= 24).
C2_RiseSetWithin24h ==
    pc = "done" => (InNext24h(ret.moonrise) /\ InNext24h(ret.moonset))

\* C3: every transit time returned that is not NaN lies between the query
\* instant and 24 hours after it.
C3_TransitWithin24h ==
    tpc = "done" => InNext24h(tres)

\* C4: when rise, transit and set are all defined for a query, rise is not
\* after transit and transit is not after set.
C4_RiseTransitSetOrdered ==
    (/\ pc = "done" /\ tpc = "done"
     /\ ~isNaN(ret.moonrise) /\ ~isNaN(tres) /\ ~isNaN(ret.moonset))
    => (Val(ret.moonrise) <= Val(tres) /\ Val(tres) <= Val(ret.moonset))

\* C9: a value once assigned to moonrise or to moonset is never replaced,
\* and the sweep leaves the loop after the first segment at which both
\* recorded offsets are below 24 hours.
C9_FirstRecordIsFinal ==
    [][/\ ~isNaN(moonrise) => moonrise' = moonrise
       /\ ~isNaN(moonset) => moonset' = moonset
       /\ (pc = "sweep" /\ found(moonrise', moonset')) => pc' = "return"
       /\ pc' = "sweep" => ~found(moonrise', moonset')
       /\ (pc = "return" /\ pc' = "done") =>
            /\ isNaN(moonrise) <=> isNaN(ret'.moonrise)
            /\ ~isNaN(moonrise) => Val(ret'.moonrise) = ms + Val(moonrise)
            /\ isNaN(moonset) <=> isNaN(ret'.moonset)
            /\ ~isNaN(moonset) => Val(ret'.moonset) = ms + Val(moonset)]_vars

\* The sweep has stopped before its last segment with both offsets below 24
\* hours; the segment that stopped it recorded one of them, and the other
\* was recorded at least one segment earlier and has been kept since.
C9_Witness ==
    /\ pc = "return" /\ i >= 2 /\ i < 24
    /\ roots >= 1
    /\ found(moonrise, moonset)
    /\ \/ Val(moonrise) < (i - 1) * K /\ Val(moonset) >= (i - 1) * K
       \/ Val(moonset) < (i - 1) * K /\ Val(moonrise) >= (i - 1) * K

\* The root of the last fitted parabola that lies within its segment, when
\* there is exactly one.
RootInDomain(p) == IF Abs(p.x1) <= K THEN p.x1 ELSE p.x2

\* C10: in a segment with exactly one root in its domain the offset recorded
\* is that root; it is recorded as a rise only when the elevation at the
\* start of the segment is below the threshold (h0 < 0) and as a set only
\* when it is not (h0 >= 0).
C10_OneRootClassifiedBySign ==
    [][(pc = "sweep" /\ roots' = 1) =>
          LET root == Num(i * K + RootInDomain(fit(h0, h1', h2')))
          IN  /\ moonrise' # moonrise => (h0 < 0 /\ moonrise' = root)
              /\ moonset' # moonset => (h0 >= 0 /\ moonset' = root)]_vars

(***************************************************************************)
(* Queries of the phase.  The instant is 03:00 UTC of each day from        *)
(* 1980-01-01 to 2019-12-31; each call runs on a host in UTC or seven      *)
(* hours behind it (the zone of the Albuquerque observer of src/test.js).  *)
(***************************************************************************)
MaxPhaseK == 14609
MaxCalls == 2
PhaseBase == 3652 * 24 + 3
PhaseInstants == { PhaseBase + 24 * k : k \in 0..MaxPhaseK }
HostOffsets == { 0, -7 }

PhaseInit == phour \in PhaseInstants /\ hist = << >>

\* phase(ms) (lines 343-351), called on a host at offset tz.
Phase ==
    /\ Len(hist) < MaxCalls
    /\ \E tz \in HostOffsets : hist' = Append(hist, phase(phour, tz))
    /\ UNCHANGED <<phour, eventVars, labelVars>>

InitPhase == EventIdle /\ PhaseInit /\ LabelIdle

NextPhase == Phase

SpecPhase == InitPhase /\ [][NextPhase]_vars

\* C5: the number of every object returned by phase is an integer in
\* 0..29: never negative and never 30.
C5_PhaseNumberInRange ==
    \A c \in 1..Len(hist) : hist[c].number \in 0..29

\* A date whose r is negative before the last line of _phaseNumber, and
\* the number returned for it: r + 30.
C5_Witness ==
    \E c \in 1..Len(hist), tz \in HostOffsets :
        /\ phase_r(phour, tz) < 0
        /\ hist[c].number = phase_r(phour, tz) + 30

\* The label the specification gives to a phase index, by range membership,
\* in the spelling of lunar.js.
LabelOfIndex(n) ==
    CASE n = 0 -> "new-moon"
      [] n \in 1..7 -> "Waxing-crescent"
      [] n = 8 -> "first-quarter"
      [] n \in 9..14 -> "waxing-gibbous"
      [] n = 15 -> "full-moon"
      [] n \in 16..21 -> "waning-gibbous"
      [] n = 22 -> "last-quarter"
      [] n \in 23..29 -> "waning-crescent"
      [] OTHER -> "none"

\* C6: for every phase index in 0..29 the label is not null and is the one
\* its range gives; the string of every object returned by phase is defined.
C6_LabelByRange ==
    \A c \in 1..Len(hist) :
        /\ hist[c].string # "null"
        /\ hist[c].number \in 0..29 => hist[c].string = LabelOfIndex(hist[c].number)

\* phase has returned the last index of the last range with its label.
C6_Witness ==
    \E c \in 1..Len(hist) :
        hist[c].number = 29 /\ hist[c].string = "waning-crescent"

\* C8 (for phase): two evaluations of phase with the same instant return the
\* same object, whatever the host.
C8_PhaseDeterminedByInstant ==
    \A c, d \in 1..Len(hist) : hist[c] = hist[d]

(***************************************************************************)
(* _phaseString on its own, for arguments from -2.0 to 33.0 in tenths.     *)
(***************************************************************************)
MaxLabelInput == 330
MinLabelInput == -(2 * 10)

LabelInit ==
    /\ lin \in MinLabelInput..MaxLabelInput
    /\ lpc = "call"
    /\ lout = "null"

\* _phaseString(lin / 10) (lines 246-287).
PhaseString ==
    /\ lpc = "call"
    /\ lout' = _phaseString(lin)
    /\ lpc' = "done"
    /\ UNCHANGED <<lin, eventVars, phaseVars>>

InitLabel == EventIdle /\ PhaseIdle /\ LabelInit

NextLabel == PhaseString

SpecLabel == InitLabel /\ [][NextLabel]_vars

=============================================================================
